---- MODULE Spec2Model ----
(***************************************************************************)
(* RFP-Genius: the PDF viewer session (PdfViewerComponent) and the         *)
(* multi-document extraction pipeline (AppComponent).                      *)
(*                                                                         *)
(* Every async method is split at its awaits: one action per synchronous   *)
(* block, run to completion, as on the single JavaScript thread.           *)
(***************************************************************************)
EXTENDS Integers, Sequences, FiniteSets, TLC

\* ------------------------------------------------------------- bounds
MaxLoads == 2
MaxInFlight == 2
MaxPages == 3
MaxZoomSpan == 2
SerialInFlight == 1
MaxBatch == 3
MaxProcs == 2
MaxGens == 2
MaxHistory == 2
SerialProcs == 1
OneFile == 1

\* ---------------------------------------------------- program constants
\* scale is kept in quarter units: 0.5 = 2, 1.5 = 6, 3.0 = 12
minScale == 2
maxScale == 12
DefaultScale == 6
ZoomStep == 1

\* null for a handle or task reference (ids start at 1), and for a string;
\* Ended is a reference to a render task that has ended without being cleared
NULL == 0
Ended == -1
None == "null"
LoadFailedMsg == "Failed to load or parse the PDF file."

\* The files the parent can hand to the viewer: two parse, one is unreadable
\* or corrupt.
ViewerFiles == {"A", "B", "X"}
Parses(f) == f # "X"
numPages(f) == IF f = "A" THEN MaxPages ELSE 1

VARIABLES
    \* PdfViewerComponent
    file,          \* the file input, None before the first binding
    isLoading, error, currentPage, totalPages, scale,
    pdfDoc,        \* NULL or the id of the attached document handle
    renderTask,    \* NULL, Ended or the place in renders of the tracked task
    loads,         \* the loadPdf invocations, in call order
    renders,       \* the renderPage invocations in flight, in call order
    lastRequest,   \* the latest renderPage call: its arguments and its state
    rejections,    \* why renderPage promises ended rejected (none is handled)
    canvas,        \* the canvas element of the template and what it shows
    ngDestroyed    \* ngOnDestroy has run

viewerVars == <<file, isLoading, error, currentPage, totalPages, scale, pdfDoc,
                renderTask, loads, renders, lastRequest, rejections, canvas,
                ngDestroyed>>

\* ======================================================== AppComponent
\* Text is a sequence of tokens (the strings of the text items and the
\* separators put between them); '' and a null FileList or message are <<>>.
Space == " "
Break == "\n\n"
CommaSpace == ", "
IgnoredMsg == "Please upload only PDF files. The following files were ignored: "
ProcessFailedMsg == "Failed to read or parse one or more PDF files. Please ensure they are valid and not corrupted."
GenerateFailedMsg == "An unknown error occurred."

\* The files the user can pick, by name, the characters of each name, and the
\* text items of the pages of those that are PDF documents.
FileNames == {"a.pdf", "c.PDF", "b.txt", "d.pdfx"}

Chars(name) ==
    CASE name = "a.pdf" -> <<"a", ".", "p", "d", "f">>
      [] name = "c.PDF" -> <<"c", ".", "P", "D", "F">>
      [] name = "b.txt" -> <<"b", ".", "t", "x", "t">>
      [] name = "d.pdfx" -> <<"d", ".", "p", "d", "f", "x">>

Pages(name) ==
    CASE name = "a.pdf" -> << <<"A", "B">>, <<"C">> >>
      [] name = "c.PDF" -> << <<"D">> >>
      [] OTHER -> <<>>

\* c.PDF stands for a file that may turn out unreadable or corrupt: each await
\* on it either resolves or rejects.
MayBeCorrupt(name) == name = "c.PDF"

\* The questions typed into the form, and String.trim().length of each.
Questions == {"Too short", "Describe your security posture."}
TrimmedLength(q) ==
    CASE q = "" -> 0
      [] q = "Too short" -> 9
      [] OTHER -> 31
MinQuestionLength == 10

Range(seq) == {seq[i] : i \in DOMAIN seq}

\* A FileList: up to MaxBatch distinct files, in the order given.
Batches ==
    {b \in UNION {[1..n -> FileNames] : n \in 0..MaxBatch} :
        \A i, j \in DOMAIN b : i # j => b[i] # b[j]}

VARIABLES
    \* AppComponent
    knowledgeBase, question, generating, appError, chatHistory, pdfToView,
    selectedFiles, processedFileNames, processingFiles,
    currentlyProcessingFile,
    processingSuccess,  \* NULL or the number of documents in the message
    fileError,
    procs,         \* the processFiles invocations in flight, in call order
    gens           \* the generate invocations in flight, in call order

appVars == <<knowledgeBase, question, generating, appError, chatHistory,
             pdfToView, selectedFiles, processedFileNames, processingFiles,
             currentlyProcessingFile, processingSuccess, fileError, procs,
             gens>>

vars == <<viewerVars, appVars>>

\* String.toLowerCase on the characters of a name.
toLowerCase(chars) ==
    [i \in DOMAIN chars |->
        CASE chars[i] = "P" -> "p"
          [] chars[i] = "D" -> "d"
          [] chars[i] = "F" -> "f"
          [] OTHER -> chars[i]]

\* String.endsWith
endsWith(chars, suffix) ==
    /\ Len(chars) >= Len(suffix)
    /\ SubSeq(chars, Len(chars) - Len(suffix) + 1, Len(chars)) = suffix

PdfSuffix == <<".", "p", "d", "f">>

\* The filter of handleFiles: the files whose name fails the extension test
\* (the test is run once for each name).
FailsPdfTest ==
    {name \in FileNames : ~endsWith(toLowerCase(Chars(name)), PdfSuffix)}

nonPdfFiles(files) == SelectSeq(files, LAMBDA f : f \in FailsPdfTest)

\* Array.join
RECURSIVE Join(_, _)
Join(items, sep) ==
    IF items = <<>> THEN <<>>
    ELSE IF Len(items) = 1 THEN <<items[1]>>
    ELSE <<items[1], sep>> \o Join(Tail(items), sep)

\* String.trim().length === 0 on a text: nothing but white space.
TrimsToEmpty(text) == \A i \in DOMAIN text : text[i] \in {Space, Break}

isFormInvalid ==
    \/ TrimsToEmpty(knowledgeBase)
    \/ TrimmedLength(question) < MinQuestionLength
    \/ generating

AppInit ==
    /\ knowledgeBase = <<>>
    /\ question = ""
    /\ generating = FALSE
    /\ appError = None
    /\ chatHistory = <<>>
    /\ pdfToView = None
    /\ selectedFiles = <<>>
    /\ processedFileNames = <<>>
    /\ processingFiles = FALSE
    /\ currentlyProcessingFile = None
    /\ processingSuccess = NULL
    /\ fileError = <<>>
    /\ procs = <<>>
    /\ gens = <<>>

\* -------------------------------------------------------------- helpers
\* A document handle is named by the loadPdf invocation whose getDocument
\* produced it; hDestroys counts the destroy() calls made on it.
Handles == {l \in DOMAIN loads : loads[l].created}
Destroyed(ls, h) == ls[h].hDestroys > 0
DestroyCall(ls, h) == [ls EXCEPT ![h].hDestroys = @ + 1]

Blank == [doc |-> NULL, page |-> 0, scale |-> 0]

\* The template shows the canvas and the controls only in its last branch.
CanvasShown(loading, err) == ~loading /\ err = None
ControlsShown == CanvasShown(isLoading, error)

\* The canvas element after a change of isLoading/error: leaving the branch
\* removes the element, entering it creates a fresh one.
CanvasAfter(loading, err) ==
    IF CanvasShown(loading, err)
    THEN IF ControlsShown THEN canvas
         ELSE [id |-> canvas.id + 1, shows |-> Blank]
    ELSE [id |-> canvas.id, shows |-> Blank]

\* The render tasks page.render has made that have neither completed nor been
\* cancelled, and those of them that draw.
Live(rs) == {r \in DOMAIN rs : rs[r].pc \in {"starting", "running"}}
Running(rs) == {r \in DOMAIN rs : rs[r].pc = "running"}

\* getPage caches the promise of a page and a page's render tasks wait for the
\* same operator list: continuations of one promise run in call order.
First(r) ==
    ~\E q \in DOMAIN renders :
        /\ q < r
        /\ renders[q].pc = renders[r].pc
        /\ renders[q].doc = renders[r].doc
        /\ renders[q].pageNum = renders[r].pageNum

\* renders without the invocation r, which has settled
Remove(rs, r) == SubSeq(rs, 1, r - 1) \o SubSeq(rs, r + 1, Len(rs))

\* The invocation r is the latest renderPage call.
IsLast(r) ==
    r = Len(renders) /\ lastRequest.status \in {"getPage", "starting", "running"}
LastAfter(r, status) ==
    IF IsLast(r) THEN [lastRequest EXCEPT !.status = status] ELSE lastRequest

\* pdf.js: destroy() on a document cancels the render tasks of its pages; their
\* promises reject, so each awaiting renderPage ends rejected.
CancelledOf(h) == {r \in Live(renders) : renders[r].doc = h}

RECURSIVE Without(_, _, _)
Without(rs, i, S) ==
    IF i > Len(rs) THEN <<>>
    ELSE (IF i \in S THEN <<>> ELSE <<rs[i]>>) \o Without(rs, i + 1, S)

DestroyRenders(h) ==
    /\ renders' = Without(renders, 1, CancelledOf(h))
    /\ renderTask' =
         IF renderTask \in CancelledOf(h) THEN Ended
         ELSE IF renderTask \in DOMAIN renders
              THEN renderTask
                   - Cardinality({r \in CancelledOf(h) : r < renderTask})
              ELSE renderTask
    /\ lastRequest' =
         IF renders # <<>> /\ Len(renders) \in CancelledOf(h)
         THEN LastAfter(Len(renders), "rejected") ELSE lastRequest
    /\ rejections' =
         IF CancelledOf(h) # {} THEN rejections \cup {"destroyed"}
         ELSE rejections

\* renderTask.cancel() at the head of renderPage: a live task stops and its
\* promise rejects with RenderingCancelledException, which nothing in renderPage
\* catches; cancel() on a task that already ended does nothing.
Cancels == renderTask \in Live(renders)

NewRender(doc, pageNum) ==
    [doc |-> doc, pageNum |-> pageNum, pc |-> "getPage", scale |-> 0,
     canvas |-> 0]

\* renderPage(pageNum) up to its first await, on the attached document doc
\* with total pages: the early return, or the cancel and the getPage call.
Returns(doc, total, pageNum) == doc = NULL \/ pageNum < 1 \/ pageNum > total

renderPage(doc, total, pageNum, sc) ==
    IF Returns(doc, total, pageNum)
    THEN /\ lastRequest' = [doc |-> doc, pageNum |-> pageNum, reqScale |-> sc,
                            status |-> "returned"]
         /\ UNCHANGED <<renders, renderTask, rejections>>
    ELSE /\ renders' = Append(IF Cancels THEN Remove(renders, renderTask)
                              ELSE renders,
                              NewRender(doc, pageNum))
         /\ renderTask' = IF Cancels THEN Ended ELSE renderTask
         /\ rejections' = IF Cancels THEN rejections \cup {"cancelled"}
                          ELSE rejections
         /\ lastRequest' = [doc |-> doc, pageNum |-> pageNum, reqScale |-> sc,
                            status |-> "getPage"]

\* ----------------------------------------------------------------- Init
Init ==
    /\ file = None
    /\ isLoading = TRUE
    /\ error = None
    /\ currentPage = 1
    /\ totalPages = 0
    /\ scale = DefaultScale
    /\ pdfDoc = NULL
    /\ renderTask = NULL
    /\ loads = <<>>
    /\ renders = <<>>
    /\ lastRequest = [doc |-> NULL, pageNum |-> 0, reqScale |-> 0,
                      status |-> "none"]
    /\ rejections = {}
    /\ canvas = [id |-> 0, shows |-> Blank]
    /\ ngDestroyed = FALSE
    /\ AppInit

\* -------------------------------------------------------------- loadPdf
NewLoad(f, pc) == [file |-> f, pc |-> pc, created |-> FALSE, hDestroys |-> 0]

\* The effect of the constructor: the file input changed, loadPdf(f) runs up
\* to its first await.
loadPdf(f) ==
    /\ ~ngDestroyed
    /\ f # file
    /\ Len(loads) < MaxLoads
    /\ file' = f
    /\ isLoading' = TRUE
    /\ error' = None
    /\ currentPage' = 1
    /\ totalPages' = 0
    /\ scale' = DefaultScale
    /\ canvas' = CanvasAfter(TRUE, None)
    /\ IF pdfDoc # NULL
       THEN /\ loads' = Append(DestroyCall(loads, pdfDoc), NewLoad(f, "destroy"))
            /\ DestroyRenders(pdfDoc)
       ELSE /\ loads' = Append(loads, NewLoad(f, "arrayBuffer"))
            /\ UNCHANGED <<renders, renderTask, lastRequest, rejections>>
    /\ UNCHANGED <<pdfDoc, ngDestroyed>>

\* await this.pdfDoc.destroy() has settled: this.pdfDoc = null, then
\* file.arrayBuffer() is called.
LoadAfterDestroy(l) ==
    /\ loads[l].pc = "destroy"
    /\ pdfDoc' = NULL
    /\ loads' = [loads EXCEPT ![l].pc = "arrayBuffer"]
    /\ UNCHANGED <<file, isLoading, error, currentPage, totalPages, scale,
                   renderTask, renders, lastRequest, rejections, canvas,
                   ngDestroyed>>

\* await file.arrayBuffer() resolved: getDocument(arrayBuffer) is called.
LoadArrayBuffer(l) ==
    /\ loads[l].pc = "arrayBuffer"
    /\ loads' = [loads EXCEPT ![l].pc = "getDocument"]
    /\ UNCHANGED <<file, isLoading, error, currentPage, totalPages, scale,
                   pdfDoc, renderTask, renders, lastRequest, rejections, canvas,
                   ngDestroyed>>

\* The byte read or the parse rejected: catch, then finally.
LoadFail(l) ==
    /\ loads[l].pc \in {"arrayBuffer", "getDocument"}
    /\ ~Parses(loads[l].file)
    /\ error' = LoadFailedMsg
    /\ isLoading' = FALSE
    /\ canvas' = CanvasAfter(FALSE, LoadFailedMsg)
    /\ loads' = [loads EXCEPT ![l].pc = "failed"]
    /\ UNCHANGED <<file, currentPage, totalPages, scale, pdfDoc, renderTask,
                   renders, lastRequest, rejections, ngDestroyed>>

\* getDocument resolved: the handle is attached, totalPages set, the first
\* render requested, then finally.
LoadDone(l) ==
    /\ loads[l].pc = "getDocument"
    /\ Parses(loads[l].file)
    /\ pdfDoc' = l
    /\ totalPages' = numPages(loads[l].file)
    /\ renderPage(l, numPages(loads[l].file), currentPage, scale)
    /\ isLoading' = FALSE
    /\ canvas' = CanvasAfter(FALSE, error)
    /\ loads' = [loads EXCEPT ![l].pc = "done", ![l].created = TRUE]
    /\ UNCHANGED <<file, error, currentPage, scale, ngDestroyed>>

\* ----------------------------------------------------------- renderPage
\* getPage resolved and the canvas is in the view: the scale is read now, the
\* canvas is resized (which clears it) and page.render makes the task, which
\* becomes the tracked one.
RenderResume(r) ==
    /\ renders[r].pc = "getPage"
    /\ First(r)
    /\ ~Destroyed(loads, renders[r].doc)
    /\ ControlsShown
    /\ canvas' = [id |-> canvas.id, shows |-> Blank]
    /\ renders' = [renders EXCEPT ![r].pc = "starting", ![r].scale = scale,
                                  ![r].canvas = canvas.id]
    /\ renderTask' = r
    /\ lastRequest' = LastAfter(r, "starting")
    /\ UNCHANGED <<file, isLoading, error, currentPage, totalPages, scale,
                   pdfDoc, loads, rejections, ngDestroyed>>

\* The page's operator list is ready and the task takes the canvas: pdf.js
\* rejects a task whose canvas another task is still drawing on ("Cannot use
\* the same canvas during multiple render() operations"), and renderPage ends
\* rejected at its await with this.renderTask left as it is.
CanvasInUse(r) ==
    \E q \in Running(renders) : renders[q].canvas = renders[r].canvas

RenderStart(r) ==
    /\ renders[r].pc = "starting"
    /\ First(r)
    /\ IF CanvasInUse(r)
       THEN /\ renders' = Remove(renders, r)
            /\ renderTask' = IF renderTask = r THEN Ended
                             ELSE IF renderTask > r THEN renderTask - 1
                             ELSE renderTask
            /\ lastRequest' = LastAfter(r, "rejected")
            /\ rejections' = rejections \cup {"canvasInUse"}
       ELSE /\ renders' = [renders EXCEPT ![r].pc = "running"]
            /\ lastRequest' = LastAfter(r, "running")
            /\ UNCHANGED <<renderTask, rejections>>
    /\ UNCHANGED <<file, isLoading, error, currentPage, totalPages, scale,
                   pdfDoc, loads, canvas, ngDestroyed>>

\* getPage rejected (the document was destroyed), or getPage resolved while
\* the template shows no canvas and the required view query throws.
RenderReject(r) ==
    /\ renders[r].pc = "getPage"
    /\ First(r)
    /\ Destroyed(loads, renders[r].doc) \/ ~ControlsShown
    /\ renders' = Remove(renders, r)
    /\ renderTask' = IF renderTask > r THEN renderTask - 1 ELSE renderTask
    /\ lastRequest' = LastAfter(r, "rejected")
    /\ rejections' = rejections \cup
          {IF Destroyed(loads, renders[r].doc) THEN "destroyed" ELSE "noCanvas"}
    /\ UNCHANGED <<file, isLoading, error, currentPage, totalPages, scale,
                   pdfDoc, loads, canvas, ngDestroyed>>

\* What the canvas of the view shows once task r has painted its page (a task
\* whose canvas has left the view paints nothing that is seen).
Drawn(r) ==
    IF renders[r].canvas = canvas.id
    THEN [id |-> canvas.id,
          shows |-> [doc |-> renders[r].doc, page |-> renders[r].pageNum,
                     scale |-> renders[r].scale]]
    ELSE canvas

\* The task has painted its page and its promise resolved:
\* this.renderTask = null.
RenderFinish(r) ==
    /\ renders[r].pc = "running"
    /\ canvas' = Drawn(r)
    /\ renderTask' = NULL
    /\ renders' = Remove(renders, r)
    /\ lastRequest' = LastAfter(r, "finished")
    /\ UNCHANGED <<file, isLoading, error, currentPage, totalPages, scale,
                   pdfDoc, loads, rejections, ngDestroyed>>

\* ------------------------------------------------------------- commands
\* The buttons exist only while the template shows the controls.
CanCommand == ~ngDestroyed /\ ControlsShown

nextPage ==
    /\ CanCommand
    /\ IF currentPage < totalPages
       THEN /\ currentPage' = currentPage + 1
            /\ renderPage(pdfDoc, totalPages, currentPage + 1, scale)
       ELSE UNCHANGED <<currentPage, renders, renderTask, lastRequest, rejections>>
    /\ UNCHANGED <<file, isLoading, error, totalPages, scale, pdfDoc, loads,
                   canvas, ngDestroyed>>

prevPage ==
    /\ CanCommand
    /\ IF currentPage > 1
       THEN /\ currentPage' = currentPage - 1
            /\ renderPage(pdfDoc, totalPages, currentPage - 1, scale)
       ELSE UNCHANGED <<currentPage, renders, renderTask, lastRequest, rejections>>
    /\ UNCHANGED <<file, isLoading, error, totalPages, scale, pdfDoc, loads,
                   canvas, ngDestroyed>>

Min(a, b) == IF a < b THEN a ELSE b
Max(a, b) == IF a > b THEN a ELSE b

\* zoomIn with the bound test off by one and the clamp left out.
zoomInPastMax ==
    /\ CanCommand
    /\ IF scale <= maxScale
       THEN /\ scale' = scale + ZoomStep
            /\ renderPage(pdfDoc, totalPages, currentPage, scale + ZoomStep)
       ELSE UNCHANGED <<scale, renders, renderTask, lastRequest, rejections>>
    /\ UNCHANGED <<file, isLoading, error, currentPage, totalPages, pdfDoc,
                   loads, canvas, ngDestroyed>>

zoomIn ==
    /\ CanCommand
    /\ IF scale < maxScale
       THEN /\ scale' = Min(maxScale, scale + ZoomStep)
            /\ renderPage(pdfDoc, totalPages, currentPage,
                          Min(maxScale, scale + ZoomStep))
       ELSE UNCHANGED <<scale, renders, renderTask, lastRequest, rejections>>
    /\ UNCHANGED <<file, isLoading, error, currentPage, totalPages, pdfDoc,
                   loads, canvas, ngDestroyed>>

zoomOut ==
    /\ CanCommand
    /\ IF scale > minScale
       THEN /\ scale' = Max(minScale, scale - ZoomStep)
            /\ renderPage(pdfDoc, totalPages, currentPage,
                          Max(minScale, scale - ZoomStep))
       ELSE UNCHANGED <<scale, renders, renderTask, lastRequest, rejections>>
    /\ UNCHANGED <<file, isLoading, error, currentPage, totalPages, pdfDoc,
                   loads, canvas, ngDestroyed>>

ngOnDestroy ==
    /\ ~ngDestroyed
    /\ file # None
    /\ ngDestroyed' = TRUE
    /\ IF pdfDoc # NULL
       THEN /\ loads' = DestroyCall(loads, pdfDoc)
            /\ DestroyRenders(pdfDoc)
       ELSE UNCHANGED <<loads, renders, renderTask, lastRequest, rejections>>
    /\ UNCHANGED <<file, isLoading, error, currentPage, totalPages, scale,
                   pdfDoc, canvas>>

\* ----------------------------------------------------------- handleFiles
\* handleFiles with the resets of the acceptance path moved in front of the
\* validation: a rejected batch wipes the committed results as well.
handleFilesResetsFirst(files) ==
    IF files = <<>>
    THEN UNCHANGED <<knowledgeBase, question, generating, appError,
                     chatHistory, pdfToView, selectedFiles,
                     processedFileNames, processingFiles,
                     currentlyProcessingFile, processingSuccess, fileError,
                     procs, gens>>
    ELSE /\ pdfToView' = None
         /\ processingSuccess' = NULL
         /\ knowledgeBase' = <<>>
         /\ processedFileNames' = <<>>
         /\ chatHistory' = <<>>
         /\ appError' = None
         /\ IF nonPdfFiles(files) # <<>>
            THEN /\ fileError' = <<IgnoredMsg>>
                                     \o Join(nonPdfFiles(files), CommaSpace)
                 /\ selectedFiles' = <<>>
            ELSE /\ fileError' = <<>>
                 /\ selectedFiles' = files
         /\ UNCHANGED <<question, generating, processingFiles,
                        currentlyProcessingFile, procs, gens>>

\* handleFiles with the return of the rejection branch left out: the error is
\* set and the code falls through to the acceptance of the batch.
handleFilesFallsThrough(files) ==
    IF files = <<>>
    THEN UNCHANGED <<knowledgeBase, question, generating, appError,
                     chatHistory, pdfToView, selectedFiles,
                     processedFileNames, processingFiles,
                     currentlyProcessingFile, processingSuccess, fileError,
                     procs, gens>>
    ELSE /\ pdfToView' = None
         /\ selectedFiles' = files
         /\ processingSuccess' = NULL
         /\ knowledgeBase' = <<>>
         /\ processedFileNames' = <<>>
         /\ chatHistory' = <<>>
         /\ appError' = None
         /\ fileError' = <<>>
         /\ UNCHANGED <<question, generating, processingFiles,
                        currentlyProcessingFile, procs, gens>>

handleFiles(files) ==
    IF files = <<>>
    THEN UNCHANGED <<knowledgeBase, question, generating, appError,
                     chatHistory, pdfToView, selectedFiles,
                     processedFileNames, processingFiles,
                     currentlyProcessingFile, processingSuccess, fileError,
                     procs, gens>>
    ELSE IF nonPdfFiles(files) # <<>>
    THEN /\ fileError' = <<IgnoredMsg>> \o Join(nonPdfFiles(files), CommaSpace)
         /\ selectedFiles' = <<>>
         /\ UNCHANGED <<knowledgeBase, question, generating, appError,
                        chatHistory, pdfToView, processedFileNames,
                        processingFiles, currentlyProcessingFile,
                        processingSuccess, procs, gens>>
    ELSE /\ pdfToView' = None
         /\ selectedFiles' = files
         /\ processingSuccess' = NULL
         /\ knowledgeBase' = <<>>
         /\ processedFileNames' = <<>>
         /\ chatHistory' = <<>>
         /\ appError' = None
         /\ fileError' = <<>>
         /\ UNCHANGED <<question, generating, processingFiles,
                        currentlyProcessingFile, procs, gens>>

\* The change event of the file input hands over the files of the element
\* (none when the dialog was dismissed), a drop those of the drag.
onFileSelected(files) == handleFiles(files)

onDrop(files) == handleFiles(files)

\* ---------------------------------------------------------- processFiles
\* The locals at the first await had the name been pushed at the end of the
\* loop body: the list is still empty.
NewProcNamesLate(files) ==
    [files |-> files, k |-> 1, pc |-> "arrayBuffer", i |-> 0,
     combinedText |-> <<>>, fileNames |-> <<>>,
     before |-> [knowledgeBase |-> knowledgeBase,
                 processedFileNames |-> processedFileNames]]

\* The locals of an invocation at its first await. The field before is no
\* local of the code: it keeps what the knowledge base and the list of names
\* were when the call was made.
NewProc(files) ==
    [files |-> files, k |-> 1, pc |-> "arrayBuffer", i |-> 0,
     combinedText |-> <<>>, fileNames |-> <<files[1]>>,
     before |-> [knowledgeBase |-> knowledgeBase,
                 processedFileNames |-> processedFileNames]]

\* The call, up to the first await: the guard, the resets and the head of
\* the first iteration of the loop.
processFiles ==
    IF selectedFiles = <<>>
    THEN UNCHANGED appVars
    ELSE /\ pdfToView' = None
         /\ processingFiles' = TRUE
         /\ appError' = None
         /\ chatHistory' = <<>>
         /\ fileError' = <<>>
         /\ processingSuccess' = NULL
         /\ knowledgeBase' = <<>>
         /\ currentlyProcessingFile' = selectedFiles[1]
         /\ procs' = Append(procs, NewProc(selectedFiles))
         /\ UNCHANGED <<question, generating, selectedFiles,
                        processedFileNames, gens>>

ProcFile(p) == procs[p].files[procs[p].k]
RemoveProc(p) == [j \in 1..(Len(procs) - 1) |->
                     IF j < p THEN procs[j] ELSE procs[j + 1]]

\* file.arrayBuffer() resolved: getDocument is called on the bytes.
ProcArrayBuffer(p) ==
    /\ procs[p].pc = "arrayBuffer"
    /\ procs' = [procs EXCEPT ![p].pc = "getDocument"]
    /\ UNCHANGED <<knowledgeBase, question, generating, appError,
                   chatHistory, pdfToView, selectedFiles,
                   processedFileNames, processingFiles,
                   currentlyProcessingFile, processingSuccess, fileError, gens>>

\* getDocument resolved: the page loop starts with getPage(1).
ProcGetDocument(p) ==
    /\ procs[p].pc = "getDocument"
    /\ procs' = [procs EXCEPT ![p].pc = "getPage", ![p].i = 1]
    /\ UNCHANGED <<knowledgeBase, question, generating, appError,
                   chatHistory, pdfToView, selectedFiles,
                   processedFileNames, processingFiles,
                   currentlyProcessingFile, processingSuccess, fileError, gens>>

\* getPage resolved: getTextContent is called on the page.
ProcGetPage(p) ==
    /\ procs[p].pc = "getPage"
    /\ procs' = [procs EXCEPT ![p].pc = "getTextContent"]
    /\ UNCHANGED <<knowledgeBase, question, generating, appError,
                   chatHistory, pdfToView, selectedFiles,
                   processedFileNames, processingFiles,
                   currentlyProcessingFile, processingSuccess, fileError, gens>>

\* The text items of the page run together with nothing between them.
pageTextUnspaced(p) == Pages(ProcFile(p))[procs[p].i]

\* pageText: the items of the page in hand joined by a space.
pageText(p) == Join(Pages(ProcFile(p))[procs[p].i], Space)

\* The text of the page put in front of the text gathered so far.
TextPrepended(p) == pageText(p) \o <<Break>> \o procs[p].combinedText

\* combinedText after the page in hand: its text, then a blank line.
TextAfter(p) == procs[p].combinedText \o pageText(p) \o <<Break>>

\* The commit without the reset of the selection: the batch stays selected
\* beside its committed results.
ProcCommitKeepsSelection(p) ==
    /\ procs[p].pc = "getTextContent"
    /\ IF procs[p].i < Len(Pages(ProcFile(p)))
       THEN /\ procs' = [procs EXCEPT ![p].pc = "getPage", ![p].i = @ + 1,
                                      ![p].combinedText = TextAfter(p)]
            /\ UNCHANGED <<knowledgeBase, processedFileNames,
                           processingSuccess, selectedFiles, processingFiles,
                           currentlyProcessingFile>>
       ELSE IF procs[p].k < Len(procs[p].files)
       THEN /\ currentlyProcessingFile' = procs[p].files[procs[p].k + 1]
            /\ procs' = [procs EXCEPT
                            ![p].pc = "arrayBuffer", ![p].i = 0,
                            ![p].k = @ + 1,
                            ![p].combinedText = TextAfter(p),
                            ![p].fileNames =
                                Append(@, procs[p].files[procs[p].k + 1])]
            /\ UNCHANGED <<knowledgeBase, processedFileNames,
                           processingSuccess, selectedFiles, processingFiles>>
       ELSE /\ knowledgeBase' = TextAfter(p)
            /\ processedFileNames' = procs[p].fileNames
            /\ processingSuccess' = Len(procs[p].files)
            /\ processingFiles' = FALSE
            /\ currentlyProcessingFile' = None
            /\ procs' = RemoveProc(p)
            /\ UNCHANGED selectedFiles
    /\ UNCHANGED <<question, generating, appError, chatHistory, pdfToView,
                   fileError, gens>>

\* The text gathered so far published whenever a file is done, not only at
\* the end of the batch.
ProcPublishesEachFile(p) ==
    /\ procs[p].pc = "getTextContent"
    /\ IF procs[p].i < Len(Pages(ProcFile(p)))
       THEN /\ procs' = [procs EXCEPT ![p].pc = "getPage", ![p].i = @ + 1,
                                      ![p].combinedText = TextAfter(p)]
            /\ UNCHANGED <<knowledgeBase, processedFileNames,
                           processingSuccess, selectedFiles, processingFiles,
                           currentlyProcessingFile>>
       ELSE IF procs[p].k < Len(procs[p].files)
       THEN /\ currentlyProcessingFile' = procs[p].files[procs[p].k + 1]
            /\ knowledgeBase' = TextAfter(p)
            /\ processedFileNames' = procs[p].fileNames
            /\ procs' = [procs EXCEPT
                            ![p].pc = "arrayBuffer", ![p].i = 0,
                            ![p].k = @ + 1,
                            ![p].combinedText = TextAfter(p),
                            ![p].fileNames =
                                Append(@, procs[p].files[procs[p].k + 1])]
            /\ UNCHANGED <<processingSuccess, selectedFiles, processingFiles>>
       ELSE /\ knowledgeBase' = TextAfter(p)
            /\ processedFileNames' = procs[p].fileNames
            /\ processingSuccess' = Len(procs[p].files)
            /\ selectedFiles' = <<>>
            /\ processingFiles' = FALSE
            /\ currentlyProcessingFile' = None
            /\ procs' = RemoveProc(p)
    /\ UNCHANGED <<question, generating, appError, chatHistory, pdfToView,
                   fileError, gens>>

\* getTextContent resolved: the text is appended, then the next page, the
\* next file, or the end of the loop with the commit and the finally block.
ProcGetTextContent(p) ==
    /\ procs[p].pc = "getTextContent"
    /\ IF procs[p].i < Len(Pages(ProcFile(p)))
       THEN /\ procs' = [procs EXCEPT ![p].pc = "getPage", ![p].i = @ + 1,
                                      ![p].combinedText = TextAfter(p)]
            /\ UNCHANGED <<knowledgeBase, processedFileNames,
                           processingSuccess, selectedFiles, processingFiles,
                           currentlyProcessingFile>>
       ELSE IF procs[p].k < Len(procs[p].files)
       THEN /\ currentlyProcessingFile' = procs[p].files[procs[p].k + 1]
            /\ procs' = [procs EXCEPT
                            ![p].pc = "arrayBuffer", ![p].i = 0,
                            ![p].k = @ + 1,
                            ![p].combinedText = TextAfter(p),
                            ![p].fileNames =
                                Append(@, procs[p].files[procs[p].k + 1])]
            /\ UNCHANGED <<knowledgeBase, processedFileNames,
                           processingSuccess, selectedFiles, processingFiles>>
       ELSE /\ knowledgeBase' = TextAfter(p)
            /\ processedFileNames' = procs[p].fileNames
            /\ processingSuccess' = Len(procs[p].files)
            /\ selectedFiles' = <<>>
            /\ processingFiles' = FALSE
            /\ currentlyProcessingFile' = None
            /\ procs' = RemoveProc(p)
    /\ UNCHANGED <<question, generating, appError, chatHistory, pdfToView,
                   fileError, gens>>

\* The failure of a file caught inside the loop: the file is skipped and the
\* loop goes on with the next one.
ProcFailSkipsFile(p) ==
    /\ procs[p].pc \in {"arrayBuffer", "getDocument", "getPage", "getTextContent"}
    /\ MayBeCorrupt(ProcFile(p))
    /\ appError' = ProcessFailedMsg
    /\ IF procs[p].k < Len(procs[p].files)
       THEN /\ currentlyProcessingFile' = procs[p].files[procs[p].k + 1]
            /\ procs' = [procs EXCEPT
                            ![p].pc = "arrayBuffer", ![p].i = 0,
                            ![p].k = @ + 1,
                            ![p].fileNames =
                                Append(@, procs[p].files[procs[p].k + 1])]
            /\ UNCHANGED <<selectedFiles, processingFiles>>
       ELSE /\ selectedFiles' = <<>>
            /\ processingFiles' = FALSE
            /\ currentlyProcessingFile' = None
            /\ procs' = RemoveProc(p)
    /\ UNCHANGED <<knowledgeBase, question, generating, chatHistory,
                   pdfToView, processedFileNames, processingSuccess,
                   fileError, gens>>

\* One of the awaits of the loop rejected (the bytes cannot be read, the
\* document does not parse, a page or its text cannot be had): the catch
\* block, then the finally block.
ProcFail(p) ==
    /\ procs[p].pc \in {"arrayBuffer", "getDocument", "getPage", "getTextContent"}
    /\ MayBeCorrupt(ProcFile(p))
    /\ appError' = ProcessFailedMsg
    /\ selectedFiles' = <<>>
    /\ processingFiles' = FALSE
    /\ currentlyProcessingFile' = None
    /\ procs' = RemoveProc(p)
    /\ UNCHANGED <<knowledgeBase, question, generating, chatHistory,
                   pdfToView, processedFileNames, processingSuccess,
                   fileError, gens>>

\* ------------------------------------------- clearFiles, viewPdf, generate
clearFiles ==
    /\ selectedFiles' = <<>>
    /\ processedFileNames' = <<>>
    /\ processingSuccess' = NULL
    /\ knowledgeBase' = <<>>
    /\ fileError' = <<>>
    /\ chatHistory' = <<>>
    /\ pdfToView' = None
    /\ currentlyProcessingFile' = None
    /\ UNCHANGED <<question, generating, appError, processingFiles, procs,
                   gens>>

viewPdf(f) ==
    /\ chatHistory' = <<>>
    /\ appError' = None
    /\ generating' = FALSE
    /\ processingFiles' = FALSE
    /\ pdfToView' = f
    /\ UNCHANGED <<knowledgeBase, question, selectedFiles,
                   processedFileNames, currentlyProcessingFile,
                   processingSuccess, fileError, procs, gens>>

onQuestionInput(q) ==
    /\ question' = q
    /\ UNCHANGED <<knowledgeBase, generating, appError, chatHistory,
                   pdfToView, selectedFiles, processedFileNames,
                   processingFiles, currentlyProcessingFile,
                   processingSuccess, fileError, procs, gens>>

\* The call, up to the await: the request carries the knowledge base and the
\* question of now.
generate ==
    IF isFormInvalid
    THEN UNCHANGED appVars
    ELSE /\ pdfToView' = None
         /\ generating' = TRUE
         /\ appError' = None
         /\ gens' = Append(gens, [knowledgeBase |-> knowledgeBase,
                                  question |-> question])
         /\ UNCHANGED <<knowledgeBase, question, chatHistory, selectedFiles,
                        processedFileNames, processingFiles,
                        currentlyProcessingFile, processingSuccess,
                        fileError, procs>>

RemoveGen(g) == [j \in 1..(Len(gens) - 1) |->
                    IF j < g THEN gens[j] ELSE gens[j + 1]]

\* The service answered: the item pairs the question of now with the answer
\* to the request, and goes to the head of the history.
GenerateResolve(g) ==
    /\ g \in DOMAIN gens
    /\ chatHistory' = <<[question |-> question, result |-> gens[g]]>>
                          \o chatHistory
    /\ generating' = FALSE
    /\ gens' = RemoveGen(g)
    /\ UNCHANGED <<knowledgeBase, question, appError, pdfToView,
                   selectedFiles, processedFileNames, processingFiles,
                   currentlyProcessingFile, processingSuccess, fileError, procs>>

\* The service failed: the catch block, then the finally block.
GenerateReject(g) ==
    /\ g \in DOMAIN gens
    /\ appError' = GenerateFailedMsg
    /\ generating' = FALSE
    /\ gens' = RemoveGen(g)
    /\ UNCHANGED <<knowledgeBase, question, chatHistory, pdfToView,
                   selectedFiles, processedFileNames, processingFiles,
                   currentlyProcessingFile, processingSuccess, fileError, procs>>

\* ----------------------------------------------------------------- Next
\* The bounds of the two specifications: how many renderPage invocations may
\* be in flight when one more is made, and how far the scale is zoomed.
Room(k) == Len(renders) < k
CanZoomIn == scale < DefaultScale + MaxZoomSpan
CanZoomOut == scale > DefaultScale - MaxZoomSpan

\* Overlapping renders and loads, the scale within MaxZoomSpan steps of the
\* default.
Next ==
    \/ \E f \in ViewerFiles : loadPdf(f) /\ UNCHANGED appVars
    \/ \E l \in DOMAIN loads : LoadAfterDestroy(l) /\ UNCHANGED appVars
    \/ \E l \in DOMAIN loads : LoadArrayBuffer(l) /\ UNCHANGED appVars
    \/ \E l \in DOMAIN loads : LoadFail(l) /\ UNCHANGED appVars
    \/ \E l \in DOMAIN loads : Room(MaxInFlight) /\ LoadDone(l) /\ UNCHANGED appVars
    \/ \E r \in DOMAIN renders : RenderResume(r) /\ UNCHANGED appVars
    \/ \E r \in DOMAIN renders : RenderStart(r) /\ UNCHANGED appVars
    \/ \E r \in DOMAIN renders : RenderReject(r) /\ UNCHANGED appVars
    \/ \E r \in DOMAIN renders : RenderFinish(r) /\ UNCHANGED appVars
    \/ Room(MaxInFlight) /\ nextPage /\ UNCHANGED appVars
    \/ Room(MaxInFlight) /\ prevPage /\ UNCHANGED appVars
    \/ Room(MaxInFlight) /\ CanZoomIn /\ zoomIn /\ UNCHANGED appVars
    \/ Room(MaxInFlight) /\ CanZoomOut /\ zoomOut /\ UNCHANGED appVars
    \/ ngOnDestroy /\ UNCHANGED appVars

Spec == Init /\ [][Next]_vars

\* The whole range of the scale, with a command issued only once the renders
\* in flight have settled.
NextZoom ==
    \/ \E f \in ViewerFiles : loadPdf(f) /\ UNCHANGED appVars
    \/ \E l \in DOMAIN loads : LoadAfterDestroy(l) /\ UNCHANGED appVars
    \/ \E l \in DOMAIN loads : LoadArrayBuffer(l) /\ UNCHANGED appVars
    \/ \E l \in DOMAIN loads : LoadFail(l) /\ UNCHANGED appVars
    \/ \E l \in DOMAIN loads : Room(SerialInFlight) /\ LoadDone(l) /\ UNCHANGED appVars
    \/ \E r \in DOMAIN renders : RenderResume(r) /\ UNCHANGED appVars
    \/ \E r \in DOMAIN renders : RenderStart(r) /\ UNCHANGED appVars
    \/ \E r \in DOMAIN renders : RenderReject(r) /\ UNCHANGED appVars
    \/ \E r \in DOMAIN renders : RenderFinish(r) /\ UNCHANGED appVars
    \/ Room(SerialInFlight) /\ nextPage /\ UNCHANGED appVars
    \/ Room(SerialInFlight) /\ prevPage /\ UNCHANGED appVars
    \/ Room(SerialInFlight) /\ zoomIn /\ UNCHANGED appVars
    \/ Room(SerialInFlight) /\ zoomOut /\ UNCHANGED appVars
    \/ ngOnDestroy /\ UNCHANGED appVars

SpecZoom == Init /\ [][NextZoom]_vars

\* The extraction pipeline: up to MaxProcs processFiles calls in flight.
RoomToProcess(k) == Len(procs) < k

NextApp ==
    \/ \E b \in Batches : onFileSelected(b) /\ UNCHANGED viewerVars
    \/ \E b \in Batches : onDrop(b) /\ UNCHANGED viewerVars
    \/ RoomToProcess(MaxProcs) /\ processFiles /\ UNCHANGED viewerVars
    \/ \E p \in DOMAIN procs : ProcArrayBuffer(p) /\ UNCHANGED viewerVars
    \/ \E p \in DOMAIN procs : ProcGetDocument(p) /\ UNCHANGED viewerVars
    \/ \E p \in DOMAIN procs : ProcGetPage(p) /\ UNCHANGED viewerVars
    \/ \E p \in DOMAIN procs : ProcGetTextContent(p) /\ UNCHANGED viewerVars
    \/ \E p \in DOMAIN procs : ProcFail(p) /\ UNCHANGED viewerVars
    \/ clearFiles /\ UNCHANGED viewerVars
    \/ \E f \in Range(selectedFiles) : viewPdf(f) /\ UNCHANGED viewerVars

SpecApp == Init /\ [][NextApp]_vars

\* The same with SerialProcs processFiles call in flight at a time.
NextBatch ==
    \/ \E b \in Batches : onFileSelected(b) /\ UNCHANGED viewerVars
    \/ \E b \in Batches : onDrop(b) /\ UNCHANGED viewerVars
    \/ RoomToProcess(SerialProcs) /\ processFiles /\ UNCHANGED viewerVars
    \/ \E p \in DOMAIN procs : ProcArrayBuffer(p) /\ UNCHANGED viewerVars
    \/ \E p \in DOMAIN procs : ProcGetDocument(p) /\ UNCHANGED viewerVars
    \/ \E p \in DOMAIN procs : ProcGetPage(p) /\ UNCHANGED viewerVars
    \/ \E p \in DOMAIN procs : ProcGetTextContent(p) /\ UNCHANGED viewerVars
    \/ \E p \in DOMAIN procs : ProcFail(p) /\ UNCHANGED viewerVars
    \/ clearFiles /\ UNCHANGED viewerVars
    \/ \E f \in Range(selectedFiles) : viewPdf(f) /\ UNCHANGED viewerVars

SpecBatch == Init /\ [][NextBatch]_vars

\* The form on top of the pipeline: SerialProcs processFiles call at a time,
\* batches of OneFile file, up to MaxGens generate calls in flight and MaxHistory items of
\* history.
RoomToGenerate ==
    /\ Len(gens) < MaxGens
    /\ Len(chatHistory) + Len(gens) < MaxHistory

SingleFiles == {b \in Batches : Len(b) = OneFile}

NextForm ==
    \/ \E b \in SingleFiles : onFileSelected(b) /\ UNCHANGED viewerVars
    \/ RoomToProcess(SerialProcs) /\ processFiles /\ UNCHANGED viewerVars
    \/ \E p \in DOMAIN procs : ProcArrayBuffer(p) /\ UNCHANGED viewerVars
    \/ \E p \in DOMAIN procs : ProcGetDocument(p) /\ UNCHANGED viewerVars
    \/ \E p \in DOMAIN procs : ProcGetPage(p) /\ UNCHANGED viewerVars
    \/ \E p \in DOMAIN procs : ProcGetTextContent(p) /\ UNCHANGED viewerVars
    \/ \E p \in DOMAIN procs : ProcFail(p) /\ UNCHANGED viewerVars
    \/ clearFiles /\ UNCHANGED viewerVars
    \/ \E f \in Range(selectedFiles) : viewPdf(f) /\ UNCHANGED viewerVars
    \/ \E q \in Questions : onQuestionInput(q) /\ UNCHANGED viewerVars
    \/ RoomToGenerate /\ generate /\ UNCHANGED viewerVars
    \/ \E g \in DOMAIN gens : GenerateResolve(g) /\ UNCHANGED viewerVars
    \/ \E g \in DOMAIN gens : GenerateReject(g) /\ UNCHANGED viewerVars

SpecForm == Init /\ [][NextForm]_vars

\* --------------------------------------------------------------- claims
LoadSettled(l) == loads[l].pc \in {"done", "failed"}
AllLoadsSettled == \A l \in DOMAIN loads : LoadSettled(l)
Pair(d, p, sc) == [doc |-> d, page |-> p, scale |-> sc]

\* The step is the completion of render task r, seen on the canvas of the view.
Paints(r) == RenderFinish(r) /\ renders[r].canvas = canvas.id

\* A session with one document, loaded, and the component alive.
OneLoaded == Len(loads) = 1 /\ loads[1].pc = "done" /\ ~ngDestroyed

LastShown ==
    (OneLoaded /\ renders = <<>> /\ lastRequest.status # "none")
        => canvas.shows = Pair(lastRequest.doc, lastRequest.pageNum,
                               lastRequest.reqScale)

StaleWrite ==
    \E r \in DOMAIN renders :
        /\ Paints(r)
        /\ ~IsLast(r)
        /\ lastRequest.status \in {"running", "finished"}

\* C1: on a loaded document, once every pending render has settled the canvas
\* shows the (page, scale) pair of the last renderPage request, and no earlier
\* request paints the canvas after the last request has started drawing.
C1_LastWriteWins == [][LastShown' /\ (OneLoaded => ~StaleWrite)]_vars

\* C2: at most one render task is live, and the tracked renderTask is the live
\* task when there is one.
C2_OneLiveTask ==
    /\ Cardinality(Live(renders)) <= 1
    /\ \A r \in Live(renders) : renderTask = r

\* A step of a loadPdf call that is no longer the latest one.
SupersededStep(l) ==
    /\ l < Len(loads)
    /\ Len(loads') = Len(loads)
    /\ loads'[l].pc # loads[l].pc

ReflectsLast ==
    (loads # <<>> /\ AllLoadsSettled) =>
        LET last == Len(loads) IN
        /\ ~isLoading
        /\ IF loads[last].pc = "done"
           THEN /\ pdfDoc = last
                /\ totalPages = numPages(loads[last].file)
                /\ error = None
           ELSE /\ pdfDoc = NULL
                /\ error = LoadFailedMsg

\* C3: the continuation of a superseded loadPdf call leaves pdfDoc, totalPages,
\* error and isLoading as they are, and once every load has settled they are
\* those of the last call.
C3_LoadSupersession ==
    [][/\ \A l \in DOMAIN loads :
             SupersededStep(l) => UNCHANGED <<pdfDoc, totalPages, error, isLoading>>
       /\ ReflectsLast']_vars

\* C4: no handle is destroyed twice, a handle that is not the attached one has
\* been destroyed (it was released before its replacement was attached), and
\* once the component is destroyed and every load has settled each handle has
\* been destroyed exactly once.
C4_ReleasedExactlyOnce ==
    /\ \A h \in Handles : loads[h].hDestroys <= 1
    /\ \A h \in Handles : h # pdfDoc => Destroyed(loads, h)
    /\ (ngDestroyed /\ AllLoadsSettled) =>
          \A h \in Handles : loads[h].hDestroys = 1

\* C5: once a later load has resolved, no render task of an earlier document
\* paints the canvas, and no render task starts on a destroyed handle.
C5_NoStaleDocument ==
    [][\A r \in DOMAIN renders :
          /\ Paints(r) =>
                ~\E l \in DOMAIN loads : l > renders[r].doc /\ loads[l].pc = "done"
          /\ RenderResume(r) => ~Destroyed(loads, renders[r].doc)]_vars

PageInRange == totalPages > 0 => (1 <= currentPage /\ currentPage <= totalPages)

\* C6: with totalPages > 0 the current page is within 1..totalPages; nextPage
\* on the last page and prevPage on the first change nothing.
C6_PageWithinBounds ==
    [][/\ PageInRange'
       /\ (currentPage = totalPages /\ nextPage) => UNCHANGED vars
       /\ (currentPage = 1 /\ prevPage) => UNCHANGED vars]_vars

\* The step makes a renderPage call for page p at scale sc.
Requested(p, sc) ==
    /\ lastRequest'.pageNum = p
    /\ lastRequest'.reqScale = sc
    /\ lastRequest'.status \in {"getPage", "returned"}
    /\ lastRequest'.status = "getPage" => Len(renders') > 0

\* C7: the scale is one of the quarter steps 2..12; a zoomIn or zoomOut that
\* changes it moves it by one step and requests a render of the current page
\* at the new scale; zoomIn at 12 and zoomOut at 2 change nothing, and no
\* render is requested by a step that changes neither page nor scale nor
\* completes a load.
C7_ScaleSteps ==
    [][/\ scale' \in minScale..maxScale
       /\ (zoomIn /\ scale < maxScale) =>
              (scale' = scale + 1 /\ Requested(currentPage, scale + 1))
       /\ (zoomOut /\ scale > minScale) =>
              (scale' = scale - 1 /\ Requested(currentPage, scale - 1))
       /\ (zoomIn /\ scale = maxScale) => UNCHANGED vars
       /\ (zoomOut /\ scale = minScale) => UNCHANGED vars
       /\ (scale' # scale) =>
              \/ scale' \in {scale + 1, scale - 1}
              \/ scale' = DefaultScale /\ Len(loads') = Len(loads) + 1
       /\ (lastRequest' # lastRequest /\ lastRequest'.status \in {"getPage", "returned"}) =>
              \/ scale' # scale
              \/ currentPage' # currentPage
              \/ \E l \in DOMAIN loads : loads[l].pc # "done" /\ loads'[l].pc = "done"
      ]_vars

C7_Witness ==
    /\ scale = maxScale
    /\ lastRequest.reqScale = maxScale
    /\ lastRequest.status = "finished"
    /\ canvas.shows.scale = maxScale

\* C8: while the error message shows, isLoading is false and no document
\* handle is attached.
C8_FailedState == error # None => (~isLoading /\ pdfDoc = NULL)

\* C9: a renderPage invocation whose task is cancelled by a newer renderPage
\* call does not end rejected.
C9_SilentCancel == "cancelled" \notin rejections

\* A name ends in ".pdf" whatever the case of its letters.
EndsInPdf(name) ==
    LET s == Chars(name)
        n == Len(s)
    IN  /\ n >= 4
        /\ s[n - 3] = "."
        /\ s[n - 2] \in {"p", "P"}
        /\ s[n - 1] \in {"d", "D"}
        /\ s[n] \in {"f", "F"}

NotPdfNames == {name \in FileNames : ~EndsInPdf(name)}
Offending(b) == Range(b) \cap NotPdfNames
OffendingBatches == {b \in Batches : Offending(b) # {}}
NamesListed(msg) == Range(msg) \ {IgnoredMsg, CommaSpace}

\* C10: handleFiles on a batch with a name that does not end in .pdf sets a
\* file error that lists the offending names and only those, sets the
\* selection to null and starts no read; processFiles with no selection changes
\* nothing; and no file is read from a batch that holds an offending name.
C10_AtomicBatchValidation ==
    [][/\ \A b \in OffendingBatches :
             handleFiles(b) =>
                 /\ fileError' # <<>>
                 /\ fileError'[1] = IgnoredMsg
                 /\ NamesListed(fileError') = Offending(b)
                 /\ selectedFiles' = <<>>
                 /\ procs' = procs
       /\ (selectedFiles = <<>> /\ processFiles) => UNCHANGED vars
       /\ \A p \in DOMAIN procs' : Offending(procs'[p].files) = {}
      ]_vars

\* A batch with two offending names was rejected after an earlier batch had
\* been processed.
C10_Witness ==
    /\ fileError = <<IgnoredMsg, "b.txt", CommaSpace, "d.pdfx">>
    /\ selectedFiles = <<>>
    /\ procs = <<>>
    /\ processedFileNames # <<>>

\* C11: a handleFiles call that rejects a batch for a non-PDF name leaves
\* knowledgeBase, processedFileNames and chatHistory, and every other field
\* but fileError and the selection, as they were.
C11_RejectionFrame ==
    [][\A b \in OffendingBatches :
          handleFiles(b) =>
              UNCHANGED <<knowledgeBase, processedFileNames, chatHistory,
                          question, generating, appError, pdfToView,
                          processingFiles, currentlyProcessingFile,
                          processingSuccess, procs, gens>>]_vars

\* A batch was rejected while results and an answer were on display.
C11_Witness ==
    /\ fileError # <<>>
    /\ knowledgeBase # <<>>
    /\ processedFileNames # <<>>
    /\ chatHistory # <<>>

\* The text items of the pages of the files of a batch, in (file, page, item)
\* order, and a text without its separators.
RECURSIVE Flatten(_)
Flatten(seqs) == IF seqs = <<>> THEN <<>> ELSE Head(seqs) \o Flatten(Tail(seqs))
ItemsOfFile(name) == Flatten(Pages(name))
ItemsOf(b) == Flatten([j \in DOMAIN b |-> ItemsOfFile(b[j])])
Unseparated(text) == SelectSeq(text, LAMBDA t : t \notin {Space, Break})

\* The step of one processFiles invocation from record a to record b: the
\* same file and page, the next page of the file, or the next file once the
\* text of the last page of the file has come.
InOrder(a, b) ==
    /\ b.files = a.files
    /\ \/ /\ b.k = a.k
          /\ b.i \in {a.i, a.i + 1}
          /\ b.i = a.i + 1 <=>
                \/ a.pc = "getDocument"
                \/ a.pc = "getTextContent" /\ b.pc = "getPage"
          /\ b.i <= Len(Pages(a.files[a.k]))
       \/ /\ b.k = a.k + 1
          /\ a.pc = "getTextContent"
          /\ a.i = Len(Pages(a.files[a.k]))
          /\ b.pc = "arrayBuffer"
          /\ b.i = 0

\* C12: each processFiles invocation starts at the first file, goes through
\* the files in input order and through the pages of a file in ascending order,
\* opens the next file only after the text of the last page of the file in
\* hand has come, has gathered the items of the pages so far in that order,
\* and the committed text holds the items of the processed files in (file,
\* page) order.
C12_ExtractionOrder ==
    [][/\ Len(procs') = Len(procs) =>
             \A p \in DOMAIN procs :
                 procs'[p] # procs[p] => InOrder(procs[p], procs'[p])
       /\ Len(procs') > Len(procs) =>
             /\ procs'[Len(procs')].k = 1
             /\ procs'[Len(procs')].i = 0
             /\ procs'[Len(procs')].files = selectedFiles
       /\ \A p \in DOMAIN procs' :
             LET a == procs'[p]
                 done == IF a.pc = "getTextContent" THEN a.i - 1 ELSE a.i
                 here == Flatten(SubSeq(Pages(a.files[a.k]), 1,
                                        IF a.pc \in {"getPage", "getTextContent"}
                                        THEN a.i - 1 ELSE 0))
             IN  Unseparated(a.combinedText)
                     = ItemsOf(SubSeq(a.files, 1, a.k - 1)) \o here
       /\ knowledgeBase' # <<>> =>
             Unseparated(knowledgeBase') = ItemsOf(processedFileNames')
      ]_vars

\* Two files were processed, the one with two pages second.
C12_Witness ==
    /\ processedFileNames = <<"c.PDF", "a.pdf">>
    /\ Unseparated(knowledgeBase) = <<"D", "A", "B", "C">>

\* ------------------------------------------------------ format of the text
\* The text of a file as one paragraph: all its text joined by single spaces,
\* then one separator.
FileParagraph(name) == Join(ItemsOfFile(name), Space) \o <<Break>>
OneParagraphPerFile(b) == Flatten([j \in DOMAIN b |-> FileParagraph(b[j])])

\* The text of a file as one paragraph per page: the items of a page joined
\* by single spaces, a separator after every page.
PageParagraphs(name) ==
    Flatten([j \in DOMAIN Pages(name) |->
                Join(Pages(name)[j], Space) \o <<Break>>])
OneParagraphPerPage(b) == Flatten([j \in DOMAIN b |-> PageParagraphs(b[j])])

\* C13 as stated: the committed text joins the text of a file by single
\* spaces and appends the two-newline separator once per file.
C13_OutputFormat ==
    knowledgeBase # <<>> =>
        knowledgeBase = OneParagraphPerFile(processedFileNames)

\* C13: the committed text of a batch is, file by file in input order and
\* page by page in ascending order, the text items of the page joined by
\* single spaces followed by the two-newline separator: the separator is
\* appended once per page, the last page of the last file included.
C13_SeparatorPerPage ==
    knowledgeBase # <<>> =>
        knowledgeBase = OneParagraphPerPage(processedFileNames)

\* A two-page file followed by a one-page file has been committed.
C13_Witness ==
    /\ processedFileNames = <<"a.pdf", "c.PDF">>
    /\ knowledgeBase = <<"A", Space, "B", Break, "C", Break, "D", Break>>

\* --------------------------------------------------- failure of a batch
\* Invocation p ends in its catch block in this step.
Fails(p) == p \in DOMAIN procs /\ ProcFail(p)

\* C14: when an invocation of processFiles ends in failure, the knowledge
\* base and the list of processed names are what they were when the call was
\* made, the selection is null and the error is the generic message.
C14_AllOrNothing ==
    [][\A p \in DOMAIN procs :
          Fails(p) =>
              /\ knowledgeBase' = procs[p].before.knowledgeBase
              /\ processedFileNames' = procs[p].before.processedFileNames
              /\ selectedFiles' = <<>>
              /\ appError' = ProcessFailedMsg]_vars

\* C15: the step in which an invocation fails is its last: it is gone from
\* the invocations in flight, the others stand where they stood, none is
\* started in its place, and the selection is null, so that a later call of
\* processFiles returns at its guard until the user selects files again.
C15_AbortOnFirstFailure ==
    [][/\ \A p \in DOMAIN procs :
              Fails(p) => procs' = RemoveProc(p) /\ selectedFiles' = <<>>
       /\ Len(procs') > Len(procs) =>
              /\ selectedFiles # <<>>
              /\ procs' = Append(procs, NewProc(selectedFiles))]_vars

\* One of two overlapping invocations of a batch whose first file is
\* corrupt has failed on it; the other is still running.
C15_Witness ==
    /\ appError = ProcessFailedMsg
    /\ selectedFiles = <<>>
    /\ Len(procs) = 1
    /\ procs[1].files = <<"c.PDF", "a.pdf">>

\* ----------------------------------------------------------- the commit
\* Invocation p is at its last await: the text of the last page of the last
\* file of its batch.
AtLastAwait(p) ==
    /\ procs[p].pc = "getTextContent"
    /\ procs[p].k = Len(procs[p].files)
    /\ procs[p].i = Len(Pages(ProcFile(p)))

\* Text or names appear in this step.
Publishes ==
    \/ knowledgeBase' # knowledgeBase /\ knowledgeBase' # <<>>
    \/ processedFileNames' # processedFileNames /\ processedFileNames' # <<>>

\* C16: the knowledge base and the list of names receive content only in the
\* step of an invocation whose every file has been extracted to its last
\* page, and in that one step the knowledge base becomes the text of the
\* whole batch, the list the names of the batch in input order, and the
\* selection null; no other step of a running batch puts text or names there.
C16_CommitOnFullSuccess ==
    [][Publishes =>
          \E p \in DOMAIN procs :
              /\ AtLastAwait(p)
              /\ ProcGetTextContent(p)
              /\ knowledgeBase' = OneParagraphPerPage(procs[p].files)
              /\ processedFileNames' = procs[p].files
              /\ selectedFiles' = <<>>]_vars

\* A batch of two files has been committed.
C16_Witness ==
    /\ processingSuccess = 2
    /\ processedFileNames = <<"c.PDF", "a.pdf">>
    /\ knowledgeBase = OneParagraphPerPage(<<"c.PDF", "a.pdf">>)
    /\ selectedFiles = <<>>

\* ------------------------------------------------------- the chat history
\* The knowledge base the answer of a history item was generated from.
GeneratedFrom(item) == item.result.knowledgeBase

\* C17: while the knowledge base holds the text of a committed batch, every
\* item of chatHistory was generated from that text: the history holds no
\* answer to a request that was issued against an earlier knowledge base,
\* whenever the answer arrived.
C17_HistoryInvalidated ==
    knowledgeBase # <<>> =>
        \A j \in DOMAIN chatHistory :
            GeneratedFrom(chatHistory[j]) = knowledgeBase

\* ------------------------------------------------------------- progress
\* C18: at every await of a running batch currentlyProcessingFile is the
\* name of the file the invocation is reading, parsing or extracting, and it
\* is null when no batch is running.
C18_ProgressObservable ==
    /\ \A p \in DOMAIN procs : currentlyProcessingFile = ProcFile(p)
    /\ procs = <<>> => currentlyProcessingFile = None

\* ------------------------------------------------------ the list of names
\* The files of invocation p that are fully consumed, and those it has begun.
Consumed(pr) == SubSeq(pr.files, 1, pr.k - 1)
Begun(pr) == SubSeq(pr.files, 1, pr.k)

LastOutstanding == loads # <<>> /\ ~LoadSettled(Len(loads))
LoadingShown == LastOutstanding => isLoading

\* C20: while the loadPdf call issued last has not settled isLoading is
\* true, and no step of an earlier call changes isLoading or error while the
\* last call is outstanding.
C20_LoadingUntilLastSettles ==
    [][/\ LoadingShown'
       /\ \A l \in DOMAIN loads :
             (SupersededStep(l) /\ LastOutstanding)
                 => UNCHANGED <<isLoading, error>>]_vars

\* ------------------------------------------------- the processing flag
\* C21: while an invocation of processFiles is between its call and its
\* finally block, processingFiles is true and currentlyProcessingFile is
\* not null, whatever other handler or invocation ran in between.
C21_BusyWhileRunning ==
    procs # <<>> => processingFiles /\ currentlyProcessingFile # None

\* ------------------------------------------------ selection and results
\* C22: a pending selection implies empty committed results: while
\* selectedFiles is not null the knowledge base is empty and
\* processedFileNames is the empty list.
C22_SelectionMeansNoResults ==
    selectedFiles # <<>> =>
        knowledgeBase = <<>> /\ processedFileNames = <<>>

\* A batch is selected while two invocations started on an earlier
\* selection are still running.
C22_Witness ==
    /\ selectedFiles # <<>>
    /\ Len(procs) = 2
    /\ \A p \in DOMAIN procs : procs[p].files # selectedFiles

====
